---- MODULE Spec2Model ----
(***************************************************************************)
(* Model of src/app.py: the /slots tool-call handler (request parsing,     *)
(* upstream availability fetch, slot collection, weekday/period grouping,  *)
(* response) and the phone normalisation used by /book and /webhook/lead.  *)
(*                                                                         *)
(* Strings are TLA+ strings read character by character with SubSeq.       *)
(* A JSON value that may or may not be a string is a record                *)
(* [type, s]: type "str" carries its text in s.                            *)
(***************************************************************************)
EXTENDS Integers, Sequences, FiniteSets, TLC

VARIABLES
    pc,            \* per call: position of the handler
    tool_call_id,  \* per call: local tool_call_id of get_slots
    slot_data,     \* per call: parsed upstream body (response.json())
    all_slots,     \* per call: local all_slots
    idx,           \* per call: 1-based position of the grouping loop in all_slots
    grouped,       \* per call: local dict grouped, as an insertion-ordered list of entries
    fallback,      \* per call: local list fallback
    steps,         \* per call: number of iterations of the grouping loop executed
    response,      \* per call: the HTTP response sent, once sent
    phone,         \* the "phone" field of the /book or /webhook/lead payload
    phone_in,      \* the value of that field when the request arrived
    applied,       \* how many times the field went through normalize_us_phone
    endpoint       \* which endpoint normalised it last

vars == <<pc, tool_call_id, slot_data, all_slots, idx, grouped, fallback,
          steps, response, phone, phone_in, applied, endpoint>>

slotVars == <<pc, tool_call_id, slot_data, all_slots, idx, grouped, fallback,
              steps, response>>

phoneVars == <<phone, phone_in, applied, endpoint>>

-----------------------------------------------------------------------------
(* Bounds *)

MaxLen == 3        \* longest slot list handed to the grouping loop
BodyMaxLen == 2    \* longest slot list in an upstream body
NumCalls == 2      \* concurrent /slots invocations
ConcMaxLen == 2    \* longest slot list of a concurrent invocation
MaxPhoneLen == 4   \* longest phone string
MaxApply == 2      \* times a phone value is sent through an endpoint

-----------------------------------------------------------------------------
(* Character helpers *)

Digits == {"0", "1", "2", "3", "4", "5", "6", "7", "8", "9"}

DigitVal == [d \in Digits |->
    CASE d = "0" -> 0 [] d = "1" -> 1 [] d = "2" -> 2 [] d = "3" -> 3
      [] d = "4" -> 4 [] d = "5" -> 5 [] d = "6" -> 6 [] d = "7" -> 7
      [] d = "8" -> 8 [] d = "9" -> 9]

CharAt(s, i) == SubSeq(s, i, i)

\* the first position p in from..Len(s) with CharAt(s, p) in cs, or 0
RECURSIVE FindChar(_, _, _)
FindChar(s, cs, from) ==
    IF from > Len(s) THEN 0
    ELSE IF CharAt(s, from) \in cs THEN from
    ELSE FindChar(s, cs, from + 1)

\* the value of the n decimal digits of s starting at position i,
\* or -1 when one of them is missing or is not a digit
RECURSIVE ParseDigits(_, _, _)
ParseDigits(s, i, n) ==
    IF n = 0 THEN 0
    ELSE IF i + n - 1 > Len(s) \/ CharAt(s, i + n - 1) \notin Digits THEN -1
    ELSE LET rest == ParseDigits(s, i, n - 1)
         IN  IF rest = -1 THEN -1
             ELSE rest * 10 + DigitVal[CharAt(s, i + n - 1)]

\* all sequences over S of length at most n
RECURSIVE SeqsUpTo(_, _)
SeqsUpTo(S, n) ==
    IF n = 0 THEN {<<>>}
    ELSE LET shorter == SeqsUpTo(S, n - 1)
         IN  shorter \cup {Append(q, x) : q \in {r \in shorter : Len(r) = n - 1}, x \in S}

\* all strings over the characters cs of length at most n
RECURSIVE StringsUpTo(_, _)
StringsUpTo(cs, n) ==
    IF n = 0 THEN {""}
    ELSE LET shorter == StringsUpTo(cs, n - 1)
         IN  shorter \cup {q \o x : q \in {r \in shorter : Len(r) = n - 1}, x \in cs}

-----------------------------------------------------------------------------
(* normalize_us_phone, src/app.py lines 37-41 *)

\* re.sub(r"[^\d]", "", phone): the characters of phone that are digits
RECURSIVE StripNonDigits(_)
StripNonDigits(p) ==
    IF Len(p) = 0 THEN ""
    ELSE (IF CharAt(p, 1) \in Digits THEN CharAt(p, 1) ELSE "")
         \o StripNonDigits(SubSeq(p, 2, Len(p)))

\* str.startswith
StartsWith(s, prefix) ==
    Len(s) >= Len(prefix) /\ SubSeq(s, 1, Len(prefix)) = prefix

normalize_us_phone_always_prefix(p) ==
    "+" \o "1" \o StripNonDigits(p)

normalize_us_phone(p) ==
    LET digits == StripNonDigits(p)
    IN  "+" \o (IF ~StartsWith(digits, "1") THEN "1" \o digits ELSE digits)

-----------------------------------------------------------------------------
(* classify_slot, src/app.py lines 43-45 *)

classify_slot_inclusive_noon(dt) ==
    IF 8 <= dt.hour /\ dt.hour <= 12 THEN "morning" ELSE "afternoon"

classify_slot(dt) ==
    IF 8 <= dt.hour /\ dt.hour < 12 THEN "morning" ELSE "afternoon"

-----------------------------------------------------------------------------
(* datetime.fromisoformat and strftime("%A"), src/app.py lines 119-120.    *)
(* The grammar is the one every CPython release with fromisoformat         *)
(* accepts: YYYY-MM-DD, then optionally any one separator character and    *)
(* HH[:MM[:SS[.fff[fff]]]] with an optional +HH:MM[:SS] or -HH:MM[:SS]     *)
(* offset.  A value that is not a string raises TypeError, a string        *)
(* outside the grammar or with a field out of range raises ValueError.     *)

JStr(s) == [type |-> "str", s |-> s]
JNum(s) == [type |-> "num", s |-> s]

NoDate == [ok |-> FALSE, exc |-> "ValueError",
           year |-> 0, month |-> 0, day |-> 0, hour |-> 0, minute |-> 0, second |-> 0]

IsLeap(y) == (y % 4 = 0) /\ ((y % 100 # 0) \/ (y % 400 = 0))

DaysInMonth(y, m) ==
    CASE m \in {1, 3, 5, 7, 8, 10, 12} -> 31
      [] m \in {4, 6, 9, 11} -> 30
      [] OTHER -> IF IsLeap(y) THEN 29 ELSE 28

RECURSIVE DaysBeforeMonth(_, _)
DaysBeforeMonth(y, m) ==
    IF m <= 1 THEN 0 ELSE DaysBeforeMonth(y, m - 1) + DaysInMonth(y, m - 1)

DaysBeforeYear(y) ==
    (y - 1) * 365 + ((y - 1) \div 4) - ((y - 1) \div 100) + ((y - 1) \div 400)

\* date.toordinal(): 0001-01-01 is day 1
ToOrdinal(y, m, d) == DaysBeforeYear(y) + DaysBeforeMonth(y, m) + d

\* HH[:MM[:SS[.fff[fff]]]]; the result has ok = FALSE when t is outside it
ParseHHMMSS(t) ==
    LET n  == Len(t)
        hh == ParseDigits(t, 1, 2)
        mm == IF n >= 5 THEN ParseDigits(t, 4, 2) ELSE 0
        ss == IF n >= 8 THEN ParseDigits(t, 7, 2) ELSE 0
        ff == IF n >= 12 THEN ParseDigits(t, 10, n - 9) ELSE 0
    IN  IF /\ n \in {2, 5, 8, 12, 15}
           /\ hh # -1 /\ mm # -1 /\ ss # -1 /\ ff # -1
           /\ (n >= 5 => CharAt(t, 3) = ":")
           /\ (n >= 8 => CharAt(t, 6) = ":")
           /\ (n >= 12 => CharAt(t, 9) = ".")
        THEN [ok |-> TRUE, hour |-> hh, minute |-> mm, second |-> ss]
        ELSE [ok |-> FALSE, hour |-> 0, minute |-> 0, second |-> 0]

\* the time part after the separator: the clock time and the optional offset
ParseTime(t) ==
    LET signAt == FindChar(t, {"+", "-"}, 1)
        clock  == IF signAt = 0 THEN t ELSE SubSeq(t, 1, signAt - 1)
        tz     == IF signAt = 0 THEN "" ELSE SubSeq(t, signAt + 1, Len(t))
        c      == ParseHHMMSS(clock)
        z      == ParseHHMMSS(tz)
    IN  IF /\ c.ok
           /\ c.hour <= 23 /\ c.minute <= 59 /\ c.second <= 59
           /\ (signAt # 0 => z.ok /\ Len(tz) \in {5, 8} /\ z.hour <= 23
                                  /\ z.minute <= 59 /\ z.second <= 59)
        THEN c
        ELSE [ok |-> FALSE, hour |-> 0, minute |-> 0, second |-> 0]

fromisoformat_strict(v) ==
    IF v.type # "str" THEN [NoDate EXCEPT !.exc = "TypeError"]
    ELSE
    LET s  == v.s
        y  == ParseDigits(s, 1, 4)
        m  == ParseDigits(s, 6, 2)
        d  == ParseDigits(s, 9, 2)
        t  == ParseTime(SubSeq(s, 12, Len(s)))
    IN  IF /\ Len(s) > 10
           /\ CharAt(s, 5) = "-" /\ CharAt(s, 8) = "-" /\ CharAt(s, 11) = "T"
           /\ y >= 1 /\ m >= 1 /\ m <= 12
           /\ d >= 1 /\ d <= DaysInMonth(y, m)
           /\ t.ok
        THEN [ok |-> TRUE, exc |-> "none", year |-> y, month |-> m, day |-> d,
              hour |-> t.hour, minute |-> t.minute, second |-> t.second]
        ELSE NoDate

fromisoformat(v) ==
    IF v.type # "str" THEN [NoDate EXCEPT !.exc = "TypeError"]
    ELSE
    LET s  == v.s
        y  == ParseDigits(s, 1, 4)
        m  == ParseDigits(s, 6, 2)
        d  == ParseDigits(s, 9, 2)
        t  == IF Len(s) > 10 THEN ParseTime(SubSeq(s, 12, Len(s)))
              ELSE [ok |-> TRUE, hour |-> 0, minute |-> 0, second |-> 0]
    IN  IF /\ Len(s) >= 10
           /\ CharAt(s, 5) = "-" /\ CharAt(s, 8) = "-"
           /\ y >= 1 /\ m >= 1 /\ m <= 12
           /\ d >= 1 /\ d <= DaysInMonth(y, m)
           /\ t.ok
        THEN [ok |-> TRUE, exc |-> "none", year |-> y, month |-> m, day |-> d,
              hour |-> t.hour, minute |-> t.minute, second |-> t.second]
        ELSE NoDate

WeekdayNames == <<"Monday", "Tuesday", "Wednesday", "Thursday", "Friday",
                  "Saturday", "Sunday">>

\* dt.strftime("%A"): date.weekday() is (toordinal() + 6) % 7, Monday = 0
strftime_A(dt) == WeekdayNames[((ToOrdinal(dt.year, dt.month, dt.day) + 6) % 7) + 1]

-----------------------------------------------------------------------------
(* The locals grouped and fallback of get_slots, src/app.py lines 114-129. *)
(* A Python dict keeps its keys in insertion order: grouped is the list of *)
(* its entries in that order, one entry per weekday key.                   *)

Calls == DOMAIN pc

HasKey(g, weekday) == \E i \in DOMAIN g : g[i].day = weekday

\* list(grouped.keys())
Keys_reversed(g) == [i \in DOMAIN g |-> g[Len(g) + 1 - i].day]

Keys(g) == [i \in DOMAIN g |-> g[i].day]

\* lines 123-126 with the bucket insertion at the front of the list
InsertSlot_prepend(g, weekday, period, iso_str) ==
    LET g1 == IF ~HasKey(g, weekday)
              THEN Append(g, [day |-> weekday, morning |-> <<>>, afternoon |-> <<>>])
              ELSE g
    IN  [i \in DOMAIN g1 |->
            IF g1[i].day = weekday
            THEN [g1[i] EXCEPT ![period] = <<iso_str>> \o @]
            ELSE g1[i]]

\* lines 123-126 with a bucket that refuses a string it already holds
InsertSlot_dedup(g, weekday, period, iso_str) ==
    LET g1 == IF ~HasKey(g, weekday)
              THEN Append(g, [day |-> weekday, morning |-> <<>>, afternoon |-> <<>>])
              ELSE g
    IN  [i \in DOMAIN g1 |->
            IF g1[i].day = weekday /\ ~\E k \in DOMAIN g1[i][period] : g1[i][period][k] = iso_str
            THEN [g1[i] EXCEPT ![period] = Append(@, iso_str)]
            ELSE g1[i]]

\* lines 123-126: create the weekday entry on first use, append to its bucket
InsertSlot(g, weekday, period, iso_str) ==
    LET g1 == IF ~HasKey(g, weekday)
              THEN Append(g, [day |-> weekday, morning |-> <<>>, afternoon |-> <<>>])
              ELSE g
    IN  [i \in DOMAIN g1 |->
            IF g1[i].day = weekday
            THEN [g1[i] EXCEPT ![period] = Append(@, iso_str)]
            ELSE g1[i]]

-----------------------------------------------------------------------------
(* HTTP responses.  keys is the set of keys of the single results entry.   *)

NoResult == [grouped_slots |-> <<>>, days |-> <<>>, periods |-> <<>>, fallback |-> <<>>]

NoResponse == [status |-> 0, raised |-> "none", results |-> <<>>]

ErrorResponse(id, keys, msg) ==
    [status |-> 200, raised |-> "none",
     results |-> <<[toolCallId |-> id, keys |-> keys, error |-> msg, result |-> NoResult]>>]

\* an exception no except clause of the handler catches: Flask answers 500
Unhandled(exc) == [status |-> 500, raised |-> exc, results |-> <<>>]

\* lines 131-143
ResultResponse(id, g, fb) ==
    [status |-> 200, raised |-> "none",
     results |-> <<[toolCallId |-> id, keys |-> {"toolCallId", "result"}, error |-> "",
                    result |-> [grouped_slots |-> g, days |-> Keys(g),
                                periods |-> <<"morning", "afternoon">>,
                                fallback |-> fb]]>>]

-----------------------------------------------------------------------------
(* The grouping loop, src/app.py lines 117-129: one iteration per step.    *)

\* the iteration with the except clause leaving the loop (break for continue)
GroupStep_break(c) ==
    /\ pc[c] = "group"
    /\ idx[c] <= Len(all_slots[c])
    /\ LET iso_str == all_slots[c][idx[c]]
           dt      == fromisoformat(iso_str)
       IN  IF dt.ok
           THEN /\ grouped' = [grouped EXCEPT ![c] =
                       InsertSlot(@, strftime_A(dt), classify_slot(dt), iso_str)]
                /\ fallback' = [fallback EXCEPT ![c] = Append(@, iso_str)]
                /\ idx' = [idx EXCEPT ![c] = @ + 1]
           ELSE /\ UNCHANGED <<grouped, fallback>>
                /\ idx' = [idx EXCEPT ![c] = Len(all_slots[c]) + 1]
    /\ steps' = [steps EXCEPT ![c] = @ + 1]
    /\ UNCHANGED <<pc, tool_call_id, slot_data, all_slots, response, phoneVars>>

\* the iteration without its except clause: the parse error leaves the handler
GroupStep_raise(c) ==
    /\ pc[c] = "group"
    /\ idx[c] <= Len(all_slots[c])
    /\ LET iso_str == all_slots[c][idx[c]]
           dt      == fromisoformat(iso_str)
       IN  IF dt.ok
           THEN /\ grouped' = [grouped EXCEPT ![c] =
                       InsertSlot(@, strftime_A(dt), classify_slot(dt), iso_str)]
                /\ fallback' = [fallback EXCEPT ![c] = Append(@, iso_str)]
                /\ idx' = [idx EXCEPT ![c] = @ + 1]
                /\ UNCHANGED <<pc, response>>
           ELSE /\ UNCHANGED <<grouped, fallback, idx>>
                /\ pc' = [pc EXCEPT ![c] = "done"]
                /\ response' = [response EXCEPT ![c] = Unhandled(dt.exc)]
    /\ steps' = [steps EXCEPT ![c] = @ + 1]
    /\ UNCHANGED <<tool_call_id, slot_data, all_slots, phoneVars>>

\* the iteration with grouped and fallback held in module globals, so that
\* every invocation works on the structures of the first one
GroupStep_shared(c) ==
    /\ pc[c] = "group"
    /\ idx[c] <= Len(all_slots[c])
    /\ LET iso_str == all_slots[c][idx[c]]
           dt      == fromisoformat(iso_str)
       IN  IF dt.ok
           THEN /\ grouped' = [grouped EXCEPT ![1] =
                       InsertSlot(@, strftime_A(dt), classify_slot(dt), iso_str)]
                /\ fallback' = [fallback EXCEPT ![1] = Append(@, iso_str)]
           ELSE UNCHANGED <<grouped, fallback>>
    /\ idx' = [idx EXCEPT ![c] = @ + 1]
    /\ steps' = [steps EXCEPT ![c] = @ + 1]
    /\ UNCHANGED <<pc, tool_call_id, slot_data, all_slots, response, phoneVars>>

GroupStep(c) ==
    /\ pc[c] = "group"
    /\ idx[c] <= Len(all_slots[c])
    /\ LET iso_str == all_slots[c][idx[c]]
           dt      == fromisoformat(iso_str)
       IN  IF dt.ok
           THEN /\ grouped' = [grouped EXCEPT ![c] =
                       InsertSlot(@, strftime_A(dt), classify_slot(dt), iso_str)]
                /\ fallback' = [fallback EXCEPT ![c] = Append(@, iso_str)]
           ELSE UNCHANGED <<grouped, fallback>>
    /\ idx' = [idx EXCEPT ![c] = @ + 1]
    /\ steps' = [steps EXCEPT ![c] = @ + 1]
    /\ UNCHANGED <<pc, tool_call_id, slot_data, all_slots, response, phoneVars>>

\* lines 131-143: the loop is over, the result is sent
Respond(c) ==
    /\ pc[c] = "group"
    /\ idx[c] > Len(all_slots[c])
    /\ response' = [response EXCEPT ![c] =
            ResultResponse(tool_call_id[c], grouped[c], fallback[c])]
    /\ pc' = [pc EXCEPT ![c] = "done"]
    /\ UNCHANGED <<tool_call_id, slot_data, all_slots, idx, grouped, fallback,
                   steps, phoneVars>>

-----------------------------------------------------------------------------
(* The request payload of /slots, src/app.py lines 50-69.  Each field of   *)
(* the payload is the kind of JSON value found at that place: "absent"     *)
(* when the key is missing, "emptylist" and "list" for [] and a non-empty  *)
(* list.  startDate and endDate distinguish a numeric string ("numstr")    *)
(* from any other string ("badstr").                                       *)

JKinds == {"absent", "null", "obj", "list", "emptylist", "str", "num"}

DataKinds == {"malformed", "null", "obj", "list", "emptylist", "str", "num"}

DateKinds == {"absent", "null", "num", "numstr", "badstr", "obj"}

\* the kinds a key can hold when its parent is a JSON object, else none
ChildKinds(parentIsObj, kinds) == IF parentIsObj THEN kinds ELSE {"absent"}

\* x.get(...) on a value of kind k
GetOn(k) == IF k = "obj" THEN "none" ELSE "AttributeError"

\* x[0] on a value of kind k
Subscript0(k) ==
    CASE k = "list" -> "none"
      [] k = "str" -> "none"
      [] k = "emptylist" -> "IndexError"
      [] k = "obj" -> "KeyError"
      [] OTHER -> "TypeError"

\* int(x) on a value of kind k (a missing key reads as None)
IntOf(k) ==
    CASE k \in {"num", "numstr"} -> "none"
      [] k = "badstr" -> "ValueError"
      [] OTHER -> "TypeError"

\* dict.get(key, default) where the default is {}: the kind handed on
OrEmptyObj(k) == IF k = "absent" THEN "obj" ELSE k

\* lines 54-60: the exception the body of the try block raises, or "none"
TryBlock(p) ==
    LET data      == IF p.data \in {"null", "emptylist"} THEN "obj" ELSE p.data
        message   == OrEmptyObj(p.message)
        tool_call == CASE p.toolCalls = "absent" -> "obj"
                       [] p.toolCalls = "list" -> p.element
                       [] OTHER -> "str"
        function  == OrEmptyObj(p.function)
        arguments == OrEmptyObj(p.arguments)
    IN  CASE GetOn(data) # "none" -> GetOn(data)
          [] GetOn(message) # "none" -> GetOn(message)
          [] p.toolCalls # "absent" /\ Subscript0(p.toolCalls) # "none" -> Subscript0(p.toolCalls)
          [] GetOn(tool_call) # "none" -> GetOn(tool_call)
          [] GetOn(function) # "none" -> GetOn(function)
          [] GetOn(arguments) # "none" -> GetOn(arguments)
          [] IntOf(p.startDate) # "none" -> IntOf(p.startDate)
          [] IntOf(p.endDate) # "none" -> IntOf(p.endDate)
          [] OTHER -> "none"

\* line 61: the exceptions the except clause names
Caught == {"ValueError", "TypeError", "IndexError"}

\* lines 50-74: read the payload; answer at once when it is unusable
ParseRequest(c) ==
    /\ pc[c] = "start"
    /\ \E d \in DataKinds :
       \E m \in ChildKinds(d = "obj", JKinds) :
       \E t \in ChildKinds(m = "obj", JKinds) :
       \E e \in ChildKinds(t = "list", JKinds \ {"absent"}) :
       \E f \in ChildKinds(e = "obj", JKinds) :
       \E a \in ChildKinds(f = "obj", JKinds) :
       \E sd \in ChildKinds(a = "obj", DateKinds) :
       \E ed \in ChildKinds(a = "obj", DateKinds) :
       \E id \in ChildKinds(e = "obj", {"absent", "str"}) :
         LET p == [data |-> d, message |-> m, toolCalls |-> t, element |-> e,
                   function |-> f, arguments |-> a, startDate |-> sd,
                   endDate |-> ed, id |-> id]
             exc == TryBlock(p)
         IN  IF d = "malformed"
             THEN \* request.json raises BadRequest before the try block
                  /\ response' = [response EXCEPT ![c] =
                          [status |-> 400, raised |-> "BadRequest", results |-> <<>>]]
                  /\ pc' = [pc EXCEPT ![c] = "done"]
                  /\ UNCHANGED tool_call_id
             ELSE IF exc = "none"
             THEN /\ tool_call_id' = [tool_call_id EXCEPT ![c] =
                          IF id = "absent" THEN "unknown" ELSE "call_1"]
                  /\ pc' = [pc EXCEPT ![c] = "fetch"]
                  /\ UNCHANGED response
             ELSE IF exc \in Caught
             THEN /\ response' = [response EXCEPT ![c] =
                          ErrorResponse("unknown", {"toolCallId", "error"},
                                        "Invalid or missing startDate/endDate")]
                  /\ pc' = [pc EXCEPT ![c] = "done"]
                  /\ UNCHANGED tool_call_id
             ELSE /\ response' = [response EXCEPT ![c] = Unhandled(exc)]
                  /\ pc' = [pc EXCEPT ![c] = "done"]
                  /\ UNCHANGED tool_call_id
    /\ UNCHANGED <<slot_data, all_slots, idx, grouped, fallback, steps, phoneVars>>

-----------------------------------------------------------------------------
(* The upstream availability request, src/app.py lines 84-112.             *)

\* the slot strings the model draws from: plain, with an offset, at the
\* hour boundaries, date only, space separated, malformed, and not a string
Samples ==
    { JStr("2024-06-10T09:00:00"),        \* Monday 09
      JStr("2024-06-11T14:00:00"),        \* Tuesday 14
      JStr("2024-06-10T08:00:00"),        \* Monday 08
      JStr("2024-06-11T12:00:00-07:00"),  \* Tuesday 12
      JStr("2024-06-10T07:59:00"),        \* Monday 07
      JStr("2024-06-12T23:30:00+05:30"),  \* Wednesday 23
      JStr("2024-06-09T00:00:00"),        \* Sunday 00
      JStr("2024-06-10"),                 \* no time part
      JStr("2024-06-11 09:00:00"),        \* space for 'T'
      JStr("not-a-date"),
      JStr("garbage"),
      JStr("2024-13-10T09:00:00"),        \* month 13
      JNum("5") }

\* the slot strings of the upstream bodies
BodySamples ==
    { JStr("2024-06-10T09:00:00"), JStr("2024-06-11T14:00:00"),
      JStr("2024-06-10"), JStr("garbage"), JNum("5") }

\* one value of the upstream object: {"slots": [...]} and what else may sit there
SlotsVal(slots) == [type |-> "obj", slots_type |-> "list", slots |-> slots]

NoSlotsVal == [type |-> "obj", slots_type |-> "absent", slots |-> <<>>]

NullSlotsVal == [type |-> "obj", slots_type |-> "null", slots |-> <<>>]

StrVal == [type |-> "str", slots_type |-> "absent", slots |-> <<>>]

ObjBody(items) == [type |-> "obj", items |-> items]

NoBody == [type |-> "null", items |-> <<>>]

\* 200 bodies that are not an object of {"slots": [...]} values
OddBodies ==
    { [type |-> "list", items |-> <<>>],
      [type |-> "null", items |-> <<>>],
      [type |-> "str", items |-> <<>>],
      ObjBody(<<StrVal>>),
      ObjBody(<<NullSlotsVal>>),
      ObjBody(<<NoSlotsVal>>),
      ObjBody(<<SlotsVal(<<JStr("2024-06-10T09:00:00")>>), StrVal>>) }

\* the slots q as the values of an upstream object: under one date, or the
\* first cut of them under one date and the rest under the next
SplitByDate(q, cut) ==
    IF Len(q) = 0 THEN <<>>
    ELSE IF cut = Len(q) THEN <<SlotsVal(q)>>
    ELSE <<SlotsVal(SubSeq(q, 1, cut)), SlotsVal(SubSeq(q, cut + 1, Len(q)))>>

\* 200 bodies of the documented shape: the slots spread over one or two dates
GoodBodies ==
    UNION { {ObjBody(SplitByDate(q, cut)) : cut \in (IF Len(q) = 0 THEN {0} ELSE 1..Len(q))} :
            q \in SeqsUpTo(BodySamples, BodyMaxLen) }

\* lines 84-108: the request, and the answers for its failures
Fetch(c) ==
    /\ pc[c] = "fetch"
    /\ \/ \* requests.get or response.json() raises
          /\ response' = [response EXCEPT ![c] =
                  ErrorResponse(tool_call_id[c], {"toolCallId", "error", "details"},
                                "Failed to fetch or parse GHL response")]
          /\ pc' = [pc EXCEPT ![c] = "done"]
          /\ UNCHANGED slot_data
       \/ \* a status other than 200
          /\ response' = [response EXCEPT ![c] =
                  ErrorResponse(tool_call_id[c], {"toolCallId", "error"}, "GHL API error")]
          /\ pc' = [pc EXCEPT ![c] = "done"]
          /\ UNCHANGED slot_data
       \/ \* status 200 with a JSON body
          \E body \in GoodBodies \cup OddBodies :
             /\ slot_data' = [slot_data EXCEPT ![c] = body]
             /\ pc' = [pc EXCEPT ![c] = "collect"]
             /\ UNCHANGED response
    /\ UNCHANGED <<tool_call_id, all_slots, idx, grouped, fallback, steps, phoneVars>>

\* lines 110-112 on the items from position i on: the slots collected, or
\* the exception raised on the way
RECURSIVE CollectSlots(_, _)
CollectSlots(items, i) ==
    IF i > Len(items) THEN [exc |-> "none", slots |-> <<>>]
    ELSE LET val == items[i] IN
         IF val.type # "obj" THEN [exc |-> "AttributeError", slots |-> <<>>]
         ELSE IF val.slots_type = "null" THEN [exc |-> "TypeError", slots |-> <<>>]
         ELSE LET rest == CollectSlots(items, i + 1)
              IN  [exc |-> rest.exc, slots |-> val.slots \o rest.slots]

\* lines 110-115: flatten the body into all_slots, start the grouping loop
Collect(c) ==
    /\ pc[c] = "collect"
    /\ LET r == IF slot_data[c].type # "obj"
                THEN [exc |-> "AttributeError", slots |-> <<>>]
                ELSE CollectSlots(slot_data[c].items, 1)
       IN  IF r.exc = "none"
           THEN /\ all_slots' = [all_slots EXCEPT ![c] = r.slots]
                /\ pc' = [pc EXCEPT ![c] = "group"]
                /\ UNCHANGED response
           ELSE /\ response' = [response EXCEPT ![c] = Unhandled(r.exc)]
                /\ pc' = [pc EXCEPT ![c] = "done"]
                /\ UNCHANGED all_slots
    /\ slot_data' = [slot_data EXCEPT ![c] = NoBody]
    /\ UNCHANGED <<tool_call_id, idx, grouped, fallback, steps, phoneVars>>

-----------------------------------------------------------------------------
(* /book and /webhook/lead, src/app.py lines 153-161 and 193-206: the      *)
(* phone of the payload is replaced by its normalised form.                *)

PhoneChars == {"1", "2", "+", "-", " "}

\* line 154
BookNormalize ==
    /\ applied < MaxApply
    /\ phone' = normalize_us_phone(phone)
    /\ applied' = applied + 1
    /\ endpoint' = "book"
    /\ UNCHANGED <<slotVars, phone_in>>

\* line 194
LeadNormalize ==
    /\ applied < MaxApply
    /\ phone' = normalize_us_phone(phone)
    /\ applied' = applied + 1
    /\ endpoint' = "lead"
    /\ UNCHANGED <<slotVars, phone_in>>

-----------------------------------------------------------------------------
(* Specifications *)

\* the locals of an invocation that has just been entered
InitCalls(n) ==
    /\ tool_call_id = [c \in 1..n |-> "unknown"]
    /\ slot_data = [c \in 1..n |-> NoBody]
    /\ idx = [c \in 1..n |-> 1]
    /\ grouped = [c \in 1..n |-> <<>>]
    /\ fallback = [c \in 1..n |-> <<>>]
    /\ steps = [c \in 1..n |-> 0]
    /\ response = [c \in 1..n |-> NoResponse]

NoPhone ==
    /\ phone = ""
    /\ phone_in = ""
    /\ applied = MaxApply
    /\ endpoint = "none"

\* one /slots request arrives
Init ==
    /\ pc = [c \in 1..1 |-> "start"]
    /\ all_slots = [c \in 1..1 |-> <<>>]
    /\ InitCalls(1)
    /\ NoPhone

Next ==
    \E c \in Calls :
        \/ ParseRequest(c)
        \/ Fetch(c)
        \/ Collect(c)
        \/ GroupStep(c)
        \/ Respond(c)

Spec == Init /\ [][Next]_vars

\* one invocation enters its grouping loop with any slot list
GroupInit ==
    /\ pc = [c \in 1..1 |-> "group"]
    /\ all_slots \in [1..1 -> SeqsUpTo(Samples, MaxLen)]
    /\ InitCalls(1)
    /\ NoPhone

GroupNext ==
    \E c \in Calls :
        \/ GroupStep(c)
        \/ Respond(c)

GroupSpec == GroupInit /\ [][GroupNext]_vars

\* several invocations are in their grouping loops at once
ConcSamples ==
    { JStr("2024-06-10T09:00:00"), JStr("2024-06-11T14:00:00") }

ConcInit ==
    /\ pc = [c \in 1..NumCalls |-> "group"]
    /\ all_slots \in [1..NumCalls -> SeqsUpTo(ConcSamples, ConcMaxLen)]
    /\ InitCalls(NumCalls)
    /\ NoPhone

ConcNext ==
    \E c \in Calls :
        \/ GroupStep(c)
        \/ Respond(c)

ConcSpec == ConcInit /\ [][ConcNext]_vars

\* a phone value arrives at /book or /webhook/lead, possibly more than once
PhoneInit ==
    /\ pc = [c \in 1..1 |-> "done"]
    /\ all_slots = [c \in 1..1 |-> <<>>]
    /\ InitCalls(1)
    /\ phone \in StringsUpTo(PhoneChars, MaxPhoneLen)
    /\ phone_in = phone
    /\ applied = 0
    /\ endpoint = "none"

PhoneNext == BookNormalize \/ LeadNormalize

PhoneSpec == PhoneInit /\ [][PhoneNext]_vars

-----------------------------------------------------------------------------
(* Vocabulary of the properties *)

\* the entries the grouping loop of call c has been through
Processed(c) == SubSeq(all_slots[c], 1, idx[c] - 1)

\* what lines 119-121 make of each slot string of the model, computed once
Classified ==
    [v \in Samples \cup BodySamples \cup ConcSamples |->
        LET dt == fromisoformat(v)
        IN  [ok |-> dt.ok,
             weekday |-> IF dt.ok THEN strftime_A(dt) ELSE "",
             period |-> classify_slot(dt)]]

Parseable(v) == Classified[v].ok

Range(q) == {q[i] : i \in DOMAIN q}

Count(q, e) == Cardinality({i \in DOMAIN q : q[i] = e})

Periods == {"morning", "afternoon"}

\* the (entry index, period) pairs naming the buckets of g
BucketsOf(g) == (DOMAIN g) \X Periods

RECURSIVE SumOver(_, _)
SumOver(S, f) ==
    IF S = {} THEN 0
    ELSE LET x == CHOOSE y \in S : TRUE IN f[x] + SumOver(S \ {x}, f)

\* the number of bucket places of g that hold e; every place when e is "any"
Held(g, e) ==
    SumOver(BucketsOf(g),
            [b \in BucketsOf(g) |->
                IF e.type = "any" THEN Len(g[b[1]][b[2]]) ELSE Count(g[b[1]][b[2]], e)])

AnyEntry == [type |-> "any", s |-> ""]

HasResult(r) == r.status = 200 /\ Len(r.results) = 1 /\ "result" \in r.results[1].keys

\* the hour digits of a timestamp as they are written; 0 when it has no time part
HourAsWritten(e) == IF Len(e.s) >= 13 THEN ParseDigits(e.s, 12, 2) ELSE 0

\* the weekdays of the parseable entries of q, each at its first occurrence
RECURSIVE FirstSeenDays(_)
FirstSeenDays(q) ==
    IF Len(q) = 0 THEN <<>>
    ELSE LET before == FirstSeenDays(SubSeq(q, 1, Len(q) - 1))
             last   == q[Len(q)]
         IN  IF Parseable(last) /\ Classified[last].weekday \notin Range(before)
             THEN Append(before, Classified[last].weekday)
             ELSE before

\* what one invocation alone makes of the input q: grouped and fallback
RECURSIVE GroupAlone(_)
GroupAlone(q) ==
    IF Len(q) = 0 THEN [grouped |-> <<>>, fallback |-> <<>>]
    ELSE LET before == GroupAlone(SubSeq(q, 1, Len(q) - 1))
             last   == q[Len(q)]
             dt     == Classified[last]
         IN  IF dt.ok
             THEN [grouped |-> InsertSlot(before.grouped, dt.weekday, dt.period, last),
                   fallback |-> Append(before.fallback, last)]
             ELSE before

-----------------------------------------------------------------------------
(* Properties *)

\* C1: after the grouping loop has processed any prefix of the slot list,
\* fallback and the buckets of grouped hold the same entries with the same
\* multiplicity: the length of fallback is the sum of the bucket lengths, and
\* every entry is in fallback as often as in the buckets and in one bucket only.
C1_FallbackMatchesBuckets ==
    \A c \in Calls :
        /\ Len(fallback[c]) = Held(grouped[c], AnyEntry)
        /\ \A e \in Range(all_slots[c]) :
              /\ Count(fallback[c], e) = Held(grouped[c], e)
              /\ Cardinality({b \in BucketsOf(grouped[c]) :
                                 e \in Range(grouped[c][b[1]][b[2]])}) <= 1

C1_Witness ==
    \E c \in Calls :
        /\ pc[c] = "group"
        /\ idx[c] = 3 /\ Len(all_slots[c]) >= 3
        /\ Len(fallback[c]) = 2 /\ fallback[c][1] = fallback[c][2]
        /\ Len(grouped[c]) = 1

\* C2: an unparseable entry is added to neither grouped nor fallback and does
\* not stop the loop: fallback is the subsequence of the processed input made
\* of the parseable entries, in input order, and the fallback returned is that
\* subsequence of the whole input.
C2_UnparseableSkipped ==
    \A c \in Calls :
        /\ fallback[c] = SelectSeq(Processed(c), Parseable)
        /\ \A e \in Range(all_slots[c]) : ~Parseable(e) => Held(grouped[c], e) = 0
        /\ (pc[c] = "done" /\ HasResult(response[c])) =>
              response[c].results[1].result.fallback = SelectSeq(all_slots[c], Parseable)

C2_Witness ==
    \E c \in Calls :
        /\ pc[c] = "done" /\ HasResult(response[c])
        /\ all_slots[c] = <<JStr("not-a-date"), JStr("2024-06-10T09:00:00"), JStr("garbage")>>
        /\ response[c].results[1].result.fallback = <<JStr("2024-06-10T09:00:00")>>
        /\ response[c].results[1].result.grouped_slots =
              <<[day |-> "Monday", morning |-> <<JStr("2024-06-10T09:00:00")>>,
                 afternoon |-> <<>>]>>

\* C3: a parsed slot is in the morning bucket iff its hour as written is in
\* 8..11 and in the afternoon bucket otherwise; a weekday entry has the two
\* buckets morning and afternoon and no other.
C3_MorningIffEightToNoon ==
    \A c \in Calls : \A i \in DOMAIN grouped[c] :
        /\ DOMAIN grouped[c][i] = {"day", "morning", "afternoon"}
        /\ \A e \in Range(grouped[c][i].morning) :
              HourAsWritten(e) \in 8..11
        /\ \A e \in Range(grouped[c][i].afternoon) :
              HourAsWritten(e) \in (0..23) \ (8..11)

C3_Witness ==
    \E c \in Calls :
        /\ \E i \in DOMAIN grouped[c] :
              /\ JStr("2024-06-10T08:00:00") \in Range(grouped[c][i].morning)
              /\ JStr("2024-06-10T07:59:00") \in Range(grouped[c][i].afternoon)
        /\ \E i \in DOMAIN grouped[c] :
              JStr("2024-06-11T12:00:00-07:00") \in Range(grouped[c][i].afternoon)

\* C4: every bucket is the in-order subsequence, duplicates included, of the
\* processed input entries that map to its weekday and period.
C4_BucketsKeepInputOrder ==
    \A c \in Calls : \A b \in BucketsOf(grouped[c]) :
        grouped[c][b[1]][b[2]] =
            SelectSeq(Processed(c),
                      LAMBDA e : /\ Parseable(e)
                                 /\ Classified[e].weekday = grouped[c][b[1]].day
                                 /\ Classified[e].period = b[2])

C4_Witness ==
    \E c \in Calls : \E i \in DOMAIN grouped[c] :
        /\ Len(grouped[c][i].morning) = 3
        /\ grouped[c][i].morning[1] = JStr("2024-06-10T09:00:00")
        /\ grouped[c][i].morning[2] = JStr("2024-06-10T08:00:00")
        /\ grouped[c][i].morning[3] = JStr("2024-06-10T09:00:00")

\* C5: the keys of grouped, and so the days returned, are without repetition
\* the weekdays of the parseable input slots in the order of each weekday's
\* first parseable slot, and a weekday is a key only with a non-empty bucket.
C5_DaysInFirstSeenOrder ==
    \A c \in Calls :
        /\ [i \in DOMAIN grouped[c] |-> grouped[c][i].day] = FirstSeenDays(Processed(c))
        /\ \A i, j \in DOMAIN grouped[c] : grouped[c][i].day = grouped[c][j].day => i = j
        /\ \A i \in DOMAIN grouped[c] :
              grouped[c][i].morning # <<>> \/ grouped[c][i].afternoon # <<>>
        /\ (pc[c] = "done" /\ HasResult(response[c])) =>
              LET r == response[c].results[1].result
              IN  /\ r.days = FirstSeenDays(all_slots[c])
                  /\ r.days = [i \in DOMAIN r.grouped_slots |-> r.grouped_slots[i].day]

C5_Witness ==
    \E c \in Calls :
        /\ pc[c] = "done" /\ HasResult(response[c])
        /\ all_slots[c] = <<JStr("2024-06-11T14:00:00"), JStr("2024-06-10T09:00:00")>>
        /\ response[c].results[1].result.days = <<"Tuesday", "Monday">>

\* C6 as stated: only the strict grammar with a 'T' and a time part is
\* accepted, so every entry of fallback has a 'T' at position 11.
C6_OnlyStrictGrammarAccepted ==
    \A c \in Calls : \A e \in Range(fallback[c]) :
        Len(e.s) > 10 /\ CharAt(e.s, 11) = "T"

\* C6 amended: a processed entry that is a valid date with no time part is
\* accepted as midnight of that date and sits in fallback and in an afternoon
\* bucket; an entry that is valid once its separator is read as 'T' is
\* accepted and sits in fallback; an entry fromisoformat rejects is in
\* neither fallback nor grouped.
C6_DateOnlyAndAnySeparatorAccepted ==
    \A c \in Calls : \A e \in Range(Processed(c)) :
        /\ (e.type = "str" /\ Len(e.s) = 10 /\ fromisoformat(JStr(e.s \o "T00:00:00")).ok) =>
              /\ e \in Range(fallback[c])
              /\ \E i \in DOMAIN grouped[c] : e \in Range(grouped[c][i].afternoon)
        /\ (/\ e.type = "str" /\ Len(e.s) > 11
            /\ fromisoformat(JStr(SubSeq(e.s, 1, 10) \o "T" \o SubSeq(e.s, 12, Len(e.s)))).ok) =>
              e \in Range(fallback[c])
        /\ ~Parseable(e) => (e \notin Range(fallback[c]) /\ Held(grouped[c], e) = 0)

C6_Witness ==
    \E c \in Calls :
        /\ pc[c] = "done" /\ HasResult(response[c])
        /\ all_slots[c] = <<JStr("2024-06-10"), JStr("2024-06-11 09:00:00"), JStr("garbage")>>
        /\ response[c].results[1].result.fallback =
              <<JStr("2024-06-10"), JStr("2024-06-11 09:00:00")>>

\* the form of a returned grouping result
IsGroupingResult(r, c) ==
    /\ HasResult(r)
    /\ r.raised = "none"
    /\ r.results[1].keys = {"toolCallId", "result"}
    /\ r.results[1].result.periods = <<"morning", "afternoon">>
    /\ r.results[1].result.grouped_slots = grouped[c]
    /\ r.results[1].result.fallback = fallback[c]
    /\ (Len(all_slots[c]) = 0 =>
          /\ r.results[1].result.grouped_slots = <<>>
          /\ r.results[1].result.days = <<>>
          /\ r.results[1].result.fallback = <<>>)

\* the locals of call c
Locals(c) == <<pc[c], idx[c], steps[c], grouped[c], fallback[c], response[c]>>

\* C7: slot grouping never fails: whatever the entries, a step of the grouping
\* loop takes the loop one entry further and stays in it, the loop is left
\* only after one step per entry and with a result of grouped, days,
\* periods = [morning, afternoon] and fallback (all empty for the empty
\* input); the steps taken are the entries passed, never more than the input
\* has, so the loop ends after one step per entry.
C7_GroupingNeverFails ==
    /\ [][\A c \in Calls : (pc[c] = "group" /\ Locals(c)' # Locals(c)) =>
            \/ /\ pc'[c] = "group"
               /\ idx'[c] = idx[c] + 1
               /\ steps'[c] = steps[c] + 1
               /\ idx'[c] <= Len(all_slots[c]) + 1
            \/ /\ pc'[c] = "done"
               /\ steps[c] = Len(all_slots[c])
               /\ IsGroupingResult(response'[c], c)]_vars
    /\ [](\A c \in Calls : /\ steps[c] = idx[c] - 1
                          /\ idx[c] <= Len(all_slots[c]) + 1
                          /\ pc[c] = "done" => IsGroupingResult(response[c], c))

C7_Witness ==
    \E c \in Calls :
        /\ pc[c] = "done" /\ HasResult(response[c])
        /\ steps[c] = 3
        /\ \A e \in Range(all_slots[c]) : ~Parseable(e)
        /\ JNum("5") \in Range(all_slots[c])
        /\ response[c].results[1].result.grouped_slots = <<>>

\* C8: with the steps of several invocations interleaved in any order, the
\* grouped and fallback of each are at every moment what its own input alone
\* produces, its result is the result of running alone, and invocations with
\* the same input return the same output.
C8_InvocationsIndependent ==
    \A c \in Calls :
        LET alone == GroupAlone(Processed(c))
        IN  /\ grouped[c] = alone.grouped
            /\ fallback[c] = alone.fallback
            /\ pc[c] = "done" =>
                  /\ Processed(c) = all_slots[c]
                  /\ response[c].results[1].result.grouped_slots = alone.grouped
                  /\ response[c].results[1].result.fallback = alone.fallback
                  /\ \A d \in Calls :
                        (pc[d] = "done" /\ all_slots[d] = all_slots[c]) =>
                            response[d] = response[c]

C8_Witness ==
    \E c, d \in Calls :
        /\ c # d
        /\ pc[c] = "done" /\ pc[d] = "group" /\ idx[d] = 2
        /\ Len(fallback[c]) = 2 /\ Len(fallback[d]) = 1
        /\ fallback[c][1] # fallback[d][1]

\* C9: whatever the payload and the upstream outcome, the handler answers
\* with status 200 and one results entry that has a toolCallId and exactly
\* one of result and error.
C9_AlwaysOneResultEntry ==
    \A c \in Calls : pc[c] = "done" =>
        /\ response[c].status = 200
        /\ Len(response[c].results) = 1
        /\ "toolCallId" \in response[c].results[1].keys
        /\ ("result" \in response[c].results[1].keys) #
           ("error" \in response[c].results[1].keys)

\* C10: the normalised phone is '+' followed by the digits of the input, with
\* a '1' put in front exactly when they do not start with '1', so that it
\* starts with '+1'; normalising it again gives the same string.
C10_PhoneCanonicalAndIdempotent ==
    applied >= 1 =>
        LET digits == StripNonDigits(phone_in)
            out    == SubSeq(phone, 2, Len(phone))
        IN  /\ StartsWith(phone, "+1")
            /\ \A i \in 1..Len(out) : CharAt(out, i) \in Digits
            /\ StartsWith(digits, "1") => out = digits
            /\ ~StartsWith(digits, "1") => out = "1" \o digits

C10_Witness ==
    /\ applied = 2
    /\ phone_in = "1-2 "
    /\ phone = "+12"
    /\ endpoint = "lead"

====
